---- MODULE Spec2Model ----
(***************************************************************************)
(* Model of sglang/srt/model_executor/forward_batch_info.py: ForwardMode   *)
(* and InputMetadata.from_schedule_batch, the assembler that turns a       *)
(* scheduler batch into the metadata record of one forward pass.           *)
(*                                                                         *)
(* Tensors and Python lists are sequences of integers.  An attribute that  *)
(* may be None is a sequence of length 0 (None) or 1 (the value).          *)
(***************************************************************************)
EXTENDS Integers, Sequences, FiniteSets

VARIABLES pc, batch, raised, ret

vars == <<pc, batch, raised, ret>>

\* ------------------------------------------------------------------ bounds
\* Requests per batch drawn by the scheduler.
MaxReqs == 3
\* Longest fill_ids / seq_len drawn by the scheduler.
MaxFill == 3
\* Requests per batch and largest length value handed in by an arbitrary caller.
MaxAnyReqs == 2
MaxAnyLen == 2

\* ------------------------------------------------------------ Python values
None == << >>
Some(v) == << v >>
IsNone(o) == o = << >>

\* ------------------------------------------------------------- ForwardMode
PREFILL == 1
EXTEND == 2
DECODE == 3
MIXED == 4
ForwardMode == {PREFILL, EXTEND, DECODE, MIXED}

is_prefill(m) == m = PREFILL

is_extend(m) == m = EXTEND \/ m = MIXED

\* is_decode that also answers true for the deprecated PREFILL.
is_decode_or_prefill(m) == m = DECODE \/ m = PREFILL

is_decode(m) == m = DECODE

is_mixed(m) == m = MIXED

\* ------------------------------------------------------------ numpy / torch
Max(a, b) == IF a >= b THEN a ELSE b

\* An arange that also yields stop.
arange_inclusive(start, stop) == [k \in 1..Max(0, stop - start + 1) |-> start + k - 1]

\* np.arange(start, stop): start, start+1, ..., stop-1; empty when stop <= start.
arange(start, stop) == [k \in 1..Max(0, stop - start) |-> start + k - 1]

RECURSIVE concatenate(_)
\* np.concatenate(arrays, axis=0) of a non-empty list of 1-D arrays.
concatenate(arrays) ==
    IF Len(arrays) = 0 THEN << >>
    ELSE Head(arrays) \o concatenate(Tail(arrays))

RECURSIVE SeqSum(_)
SeqSum(s) == IF Len(s) = 0 THEN 0 ELSE Head(s) + SeqSum(Tail(s))

\* torch.cumsum(t, dim=0): inclusive running sum.
cumsum(t) == [i \in 1..Len(t) |-> SeqSum(SubSeq(t, 1, i))]

zeros_like(t) == [i \in 1..Len(t) |-> 0]

\* ----------------------------------------------------------- InputMetadata
\* ScheduleBatch.batch_size(): the number of requests of the batch.
batch_size(b) == Len(b.reqs)

\* cls(...): the record as the dataclass constructor leaves it; every field
\* the call does not pass keeps its default None.
cls(b) ==
    [forward_mode |-> b.forward_mode,
     batch_size |-> batch_size(b),
     input_ids |-> b.input_ids,
     req_pool_indices |-> b.req_pool_indices,
     seq_lens |-> b.seq_lens,
     out_cache_loc |-> b.out_cache_loc,
     positions |-> None,
     extend_seq_lens |-> None,
     extend_prefix_lens |-> None,
     extend_start_loc |-> None,
     return_logprob |-> b.return_logprob,
     top_logprobs_nums |-> b.top_logprobs_nums,
     extend_seq_lens_cpu |-> None,
     extend_logprob_start_lens_cpu |-> None,
     image_inputs |-> None,
     lora_paths |-> Some([i \in 1..Len(b.reqs) |-> b.reqs[i].lora_path]),
     req_to_token_pool |-> None,
     token_to_kv_pool |-> None,
     attn_backend |-> None]

\* The positions taken as seq_lens itself, the subtraction forgotten.
DecodePositions_no_minus(seq_lens) == seq_lens

\* (seq_lens - 1).to(torch.int64)
DecodePositions(seq_lens) == [i \in 1..Len(seq_lens) |-> seq_lens[i] - 1]

\* ret.seq_lens.sub_(1): the subtraction done in place, on the tensor the
\* record shares with the batch.
SetDecodePositions_inplace(st) ==
    [batch |-> [st.batch EXCEPT !.seq_lens = DecodePositions(st.batch.seq_lens)],
     ret |-> [st.ret EXCEPT !.seq_lens = DecodePositions(st.ret.seq_lens),
                            !.positions = Some(DecodePositions(st.ret.seq_lens))]]

\* The decode branch: a new tensor is bound to ret.positions; the batch and
\* the tensors the record shares with it are only read.
SetDecodePositions(st) ==
    [st EXCEPT !.ret.positions = Some(DecodePositions(st.ret.seq_lens))]

\* The runs started at 0, the cached prefix ignored.
PositionRuns_from_zero(b) ==
    [i \in 1..Len(b.reqs) |-> arange(0, Len(b.reqs[i].fill_ids))]

\* The list comprehension: one np.arange per request, in request order.
PositionRuns(b) ==
    [i \in 1..Len(b.reqs) |->
        arange(b.prefix_lens_cpu[1][i], Len(b.reqs[i].fill_ids))]

ExtendPositions(b) == concatenate(PositionRuns(b))

\* extend_seq_lens read from the prefix lengths.
ExtendSeqLens_from_prefix(b) == b.prefix_lens_cpu[1]

\* torch.tensor(batch.extend_lens_cpu, device="cuda")
ExtendSeqLens(b) == b.extend_lens_cpu[1]

\* torch.tensor(batch.prefix_lens_cpu, device="cuda")
ExtendPrefixLens(b) == b.prefix_lens_cpu[1]

\* The inclusive running sum, the shift by one request forgotten.
ExtendStartLoc_inclusive(extend_seq_lens) == cumsum(extend_seq_lens)

\* zeros_like(extend_seq_lens), then [1:] = cumsum(extend_seq_lens[:-1]).
ExtendStartLoc(extend_seq_lens) ==
    LET zeros == zeros_like(extend_seq_lens)
        sums == cumsum(SubSeq(extend_seq_lens, 1, Len(extend_seq_lens) - 1))
    IN [i \in 1..Len(extend_seq_lens) |-> IF i >= 2 THEN sums[i - 1] ELSE zeros[i]]

\* The exception the non-decode branch raises, "None" when it raises none.
\* In statement order: batch.prefix_lens_cpu[i] of the comprehension,
\* np.concatenate of an empty list, torch.tensor(None).
ExtendRaises(b) ==
    IF Len(b.reqs) > 0 /\ IsNone(b.prefix_lens_cpu) THEN "TypeError"
    ELSE IF Len(b.reqs) > 0 /\ Len(b.prefix_lens_cpu[1]) < Len(b.reqs) THEN "IndexError"
    ELSE IF Len(b.reqs) = 0 THEN "ValueError"
    ELSE IF IsNone(b.extend_lens_cpu) THEN "RuntimeError"
    ELSE IF IsNone(b.prefix_lens_cpu) THEN "RuntimeError"
    ELSE "None"

\* The non-decode branch when nothing raises.
SetExtendFields(st) ==
    LET b == st.batch
        extend_seq_lens == ExtendSeqLens(b)
    IN [st EXCEPT
          !.ret.positions = Some(ExtendPositions(b)),
          !.ret.image_inputs = Some([i \in 1..Len(b.reqs) |-> b.reqs[i].image_inputs]),
          !.ret.extend_seq_lens = Some(extend_seq_lens),
          !.ret.extend_prefix_lens = Some(ExtendPrefixLens(b)),
          !.ret.extend_start_loc = Some(ExtendStartLoc(extend_seq_lens)),
          !.ret.extend_seq_lens_cpu = b.extend_lens_cpu,
          !.ret.extend_logprob_start_lens_cpu = b.extend_logprob_start_lens_cpu]

\* InputMetadata.from_schedule_batch(batch): the batch after the call, the
\* exception raised ("None" for a normal return) and the returned record.
from_schedule_batch(b) ==
    LET st0 == [batch |-> b, ret |-> cls(b)]
    IN IF is_decode(st0.ret.forward_mode)
       THEN LET st == SetDecodePositions(st0)
            IN [batch |-> st.batch, raised |-> "None", ret |-> Some(st.ret)]
       ELSE IF ExtendRaises(b) /= "None"
            THEN [batch |-> b, raised |-> ExtendRaises(b), ret |-> None]
            ELSE LET st == SetExtendFields(st0)
                 IN [batch |-> st.batch, raised |-> "None", ret |-> Some(st.ret)]

\* ---------------------------------------------------------------- scheduler
\* The batches the scheduler hands to the assembler.  Request i carries
\* fill_ids of the drawn length; only request 1 names an adapter.
SeqsUpTo(n, S) == UNION {[1..k -> S] : k \in 0..n}

FillIds(i, n) == [k \in 1..n |-> 10 * i + k]

Req(i, n) ==
    [fill_ids |-> FillIds(i, n),
     lora_path |-> IF i = 1 THEN Some("adapter") ELSE None,
     image_inputs |-> None]

\* (prefix_len, fill_len) of one request, prefix_len <= fill_len.
LenPairs == {p \in (0..MaxFill) \X (0..MaxFill) : p[1] <= p[2]}

\* An extend-phase batch: per request the cached prefix length and the fill
\* length; the new tokens are fill_ids[prefix_len:], extend_lens_cpu counts them.
prepare_for_extend(mode, lens) ==
    LET n == Len(lens)
        reqs == [i \in 1..n |-> Req(i, lens[i][2])]
        new == [i \in 1..n |-> SubSeq(reqs[i].fill_ids, lens[i][1] + 1, lens[i][2])]
        input_ids == concatenate(new)
    IN [forward_mode |-> mode,
        reqs |-> reqs,
        input_ids |-> input_ids,
        req_pool_indices |-> [i \in 1..n |-> n - i],
        seq_lens |-> [i \in 1..n |-> lens[i][2]],
        out_cache_loc |-> [k \in 1..Len(input_ids) |-> 100 + k],
        return_logprob |-> n >= 2,
        top_logprobs_nums |-> [i \in 1..n |-> i - 1],
        prefix_lens_cpu |-> Some([i \in 1..n |-> lens[i][1]]),
        extend_lens_cpu |-> Some([i \in 1..n |-> lens[i][2] - lens[i][1]]),
        extend_logprob_start_lens_cpu |-> Some([i \in 1..n |-> 0])]

\* A decode-phase batch: one new token per request.  The extend bookkeeping
\* is either absent or left over from the extend pass that came before.
prepare_for_decode(seq_lens, leftover) ==
    LET n == Len(seq_lens)
    IN [forward_mode |-> DECODE,
        reqs |-> [i \in 1..n |-> Req(i, seq_lens[i])],
        input_ids |-> [i \in 1..n |-> 10 * i + seq_lens[i]],
        req_pool_indices |-> [i \in 1..n |-> n - i],
        seq_lens |-> seq_lens,
        out_cache_loc |-> [k \in 1..n |-> 100 + k],
        return_logprob |-> n >= 2,
        top_logprobs_nums |-> [i \in 1..n |-> i - 1],
        prefix_lens_cpu |->
            IF leftover THEN Some([i \in 1..n |-> 0]) ELSE None,
        extend_lens_cpu |->
            IF leftover THEN Some([i \in 1..n |-> seq_lens[i] - 1]) ELSE None,
        extend_logprob_start_lens_cpu |->
            IF leftover THEN Some([i \in 1..n |-> 0]) ELSE None]

\* No batch selected: what the driver holds between two passes.
NoBatch == prepare_for_decode(<< >>, FALSE)

\* ------------------------------------------------------------ state machine
Init ==
    /\ pc = "idle"
    /\ batch = NoBatch
    /\ raised = "None"
    /\ ret = None

\* The scheduler selects an extend-phase batch (PREFILL, EXTEND or MIXED).
ScheduleExtend ==
    /\ pc = "idle"
    /\ \E mode \in ForwardMode \ {DECODE} :
       \E lens \in SeqsUpTo(MaxReqs, LenPairs) :
          batch' = prepare_for_extend(mode, lens)
    /\ pc' = "ready"
    /\ UNCHANGED <<raised, ret>>

\* The scheduler selects a decode-phase batch.
ScheduleDecode ==
    /\ pc = "idle"
    /\ \E seq_lens \in SeqsUpTo(MaxReqs, 1..MaxFill) :
       \E leftover \in (IF Len(seq_lens) = 0 THEN {FALSE} ELSE BOOLEAN) :
          batch' = prepare_for_decode(seq_lens, leftover)
    /\ pc' = "ready"
    /\ UNCHANGED <<raised, ret>>

\* One call of InputMetadata.from_schedule_batch(batch).
Assemble ==
    /\ pc = "ready"
    /\ LET r == from_schedule_batch(batch)
       IN /\ batch' = r.batch
          /\ raised' = r.raised
          /\ ret' = r.ret
    /\ pc' = "built"

\* The pass is over: the record is discarded.
Discard ==
    /\ pc = "built"
    /\ pc' = "idle"
    /\ batch' = NoBatch
    /\ raised' = "None"
    /\ ret' = None

Next == ScheduleExtend \/ ScheduleDecode \/ Assemble \/ Discard

Spec == Init /\ [][Next]_vars

\* ------------------------------------------------------- shorthand for claims
Built == pc = "built"
Returned == pc = "built" /\ raised = "None"
Rec == ret[1]
PrefixLen(i) == batch.prefix_lens_cpu[1][i]
FillLen(i) == Len(batch.reqs[i].fill_ids)
ExtendPopulated(r) ==
    /\ ~IsNone(r.extend_seq_lens)
    /\ ~IsNone(r.extend_prefix_lens)
    /\ ~IsNone(r.extend_start_loc)
ExtendAbsent(r) ==
    /\ IsNone(r.extend_seq_lens)
    /\ IsNone(r.extend_prefix_lens)
    /\ IsNone(r.extend_start_loc)
    /\ IsNone(r.extend_seq_lens_cpu)
    /\ IsNone(r.extend_logprob_start_lens_cpu)
    /\ IsNone(r.image_inputs)

\* ------------------------------------------------------ arbitrary callers
\* from_schedule_batch is a public classmethod: a caller may hand it a
\* descriptor whose per-request arrays disagree in length or whose extend
\* bookkeeping is missing.  Every field is drawn independently.
OptionalLens == {None} \cup {Some(s) : s \in SeqsUpTo(MaxAnyReqs, 0..MaxAnyLen)}

AnyBatch(mode, fill_lens, seq_lens, prefix_lens_cpu, extend_lens_cpu) ==
    LET n == Len(fill_lens)
    IN [forward_mode |-> mode,
        reqs |-> [i \in 1..n |-> Req(i, fill_lens[i])],
        input_ids |-> [i \in 1..n |-> 10 * i],
        req_pool_indices |-> [i \in 1..n |-> n - i],
        seq_lens |-> seq_lens,
        out_cache_loc |-> [k \in 1..n |-> 100 + k],
        return_logprob |-> n >= 2,
        top_logprobs_nums |-> [i \in 1..n |-> i - 1],
        prefix_lens_cpu |-> prefix_lens_cpu,
        extend_lens_cpu |-> extend_lens_cpu,
        extend_logprob_start_lens_cpu |-> None]

CallerSubmits ==
    /\ pc = "idle"
    /\ \E mode \in ForwardMode :
       \E fill_lens \in SeqsUpTo(MaxAnyReqs, 0..MaxAnyLen) :
       \E seq_lens \in SeqsUpTo(MaxAnyReqs, 1..MaxAnyLen) :
       \E prefix_lens_cpu \in OptionalLens :
       \E extend_lens_cpu \in OptionalLens :
          batch' = AnyBatch(mode, fill_lens, seq_lens, prefix_lens_cpu, extend_lens_cpu)
    /\ pc' = "ready"
    /\ UNCHANGED <<raised, ret>>

NextAny == CallerSubmits \/ Assemble \/ Discard

SpecAny == Init /\ [][NextAny]_vars

\* ------------------------------------------------------------------ claims

\* C1: for a DECODE batch the call returns a record whose positions has
\* batch_size entries, positions[i] = seq_lens[i] - 1 for every request, and
\* none of the extend-only fields is populated.
C1_DecodePositions ==
    (Built /\ batch.forward_mode = DECODE) =>
        /\ raised = "None"
        /\ ~IsNone(Rec.positions)
        /\ Len(Rec.positions[1]) = Rec.batch_size
        /\ Rec.batch_size = Len(batch.reqs)
        /\ \A i \in 1..Len(batch.reqs) : Rec.positions[1][i] = batch.seq_lens[i] - 1
        /\ ExtendAbsent(Rec)

\* A decode batch of two requests that still carries extend bookkeeping.
C1_Witness ==
    /\ Returned
    /\ batch.forward_mode = DECODE
    /\ batch.seq_lens = <<3, 1>>
    /\ ~IsNone(batch.prefix_lens_cpu)
    /\ Rec.positions = Some(<<2, 0>>)
    /\ Rec.batch_size = 2

\* C2: for a non-decode batch, request i's slice of positions, located by
\* extend_start_loc[i] and extend_seq_lens[i], is the ascending range
\* prefix_len[i], ..., fill_len[i] - 1; the runs follow the request order.
C2_PositionSlices ==
    (Returned /\ batch.forward_mode /= DECODE) =>
        \A i \in 1..Len(batch.reqs) :
            LET start == Rec.extend_start_loc[1][i]
                count == Rec.extend_seq_lens[1][i]
                slice == SubSeq(Rec.positions[1], start + 1, start + count)
            IN /\ start + count <= Len(Rec.positions[1])
               /\ Len(slice) = FillLen(i) - PrefixLen(i)
               /\ \A k \in 1..Len(slice) : slice[k] = PrefixLen(i) + k - 1

\* prefix_len = [1,0], fill_len = [3,2]: runs 1,2 then 0,1.
C2_Witness ==
    /\ Returned
    /\ batch.forward_mode = EXTEND
    /\ batch.prefix_lens_cpu = Some(<<1, 0>>)
    /\ batch.seq_lens = <<3, 2>>
    /\ Rec.positions = Some(<<1, 2, 0, 1>>)

\* C3: extend_start_loc is the exclusive prefix sum of extend_seq_lens, also
\* across a request that contributes no token.
C3_StartLocPrefixSum ==
    (Returned /\ batch.forward_mode /= DECODE) =>
        LET e == Rec.extend_seq_lens[1]
            s == Rec.extend_start_loc[1]
        IN /\ Len(s) = Len(e)
           /\ Len(s) >= 1 => s[1] = 0
           /\ \A i \in 2..Len(s) : s[i] = s[i - 1] + e[i - 1]

\* A request with no new token in the middle of the batch.
C3_Witness ==
    /\ Returned
    /\ batch.forward_mode = EXTEND
    /\ Rec.extend_seq_lens = Some(<<2, 0, 2>>)
    /\ Rec.extend_start_loc = Some(<<0, 2, 2>>)

\* C4: for a non-decode batch sum(extend_seq_lens) = len(positions) =
\* len(input_ids).
C4_LengthConsistent ==
    (Returned /\ batch.forward_mode /= DECODE) =>
        /\ SeqSum(Rec.extend_seq_lens[1]) = Len(Rec.positions[1])
        /\ Len(Rec.positions[1]) = Len(Rec.input_ids)

C4_Witness ==
    /\ Returned
    /\ batch.forward_mode = MIXED
    /\ Rec.extend_seq_lens = Some(<<2, 0, 1>>)
    /\ Len(Rec.positions[1]) = 3
    /\ Len(Rec.input_ids) = 3

\* C5: for a non-decode batch extend_seq_lens[i] = fill_len[i] - prefix_len[i]
\* and extend_prefix_lens[i] = prefix_len[i] for every request.
C5_ExtendLens ==
    (Returned /\ batch.forward_mode /= DECODE) =>
        /\ Len(Rec.extend_seq_lens[1]) = Len(batch.reqs)
        /\ Len(Rec.extend_prefix_lens[1]) = Len(batch.reqs)
        /\ \A i \in 1..Len(batch.reqs) :
              /\ Rec.extend_seq_lens[1][i] = FillLen(i) - PrefixLen(i)
              /\ Rec.extend_prefix_lens[1][i] = PrefixLen(i)

C5_Witness ==
    /\ Returned
    /\ batch.forward_mode = EXTEND
    /\ batch.prefix_lens_cpu = Some(<<1, 2>>)
    /\ FillLen(1) = 3
    /\ FillLen(2) = 2
    /\ Rec.extend_seq_lens = Some(<<2, 0>>)
    /\ Rec.extend_prefix_lens = Some(<<1, 2>>)

ExtendDataSupplied == ~IsNone(batch.prefix_lens_cpu) \/ ~IsNone(batch.extend_lens_cpu)
ExtendDataMissing == IsNone(batch.prefix_lens_cpu) \/ IsNone(batch.extend_lens_cpu)

\* C6: a DECODE batch that supplies extend bookkeeping, or a non-decode
\* batch that lacks it, makes the call fail with ConfigurationError and
\* return no record.
C6_MismatchRaises ==
    (Built /\ (IF batch.forward_mode = DECODE
               THEN ExtendDataSupplied
               ELSE is_extend(batch.forward_mode) /\ ExtendDataMissing)) =>
        /\ raised = "ConfigurationError"
        /\ ret = None

LengthsMismatch ==
    \/ Len(batch.seq_lens) /= Len(batch.reqs)
    \/ Len(batch.req_pool_indices) /= Len(batch.reqs)
    \/ Len(batch.top_logprobs_nums) /= Len(batch.reqs)
    \/ ~IsNone(batch.prefix_lens_cpu) /\ Len(batch.prefix_lens_cpu[1]) /= Len(batch.reqs)
    \/ ~IsNone(batch.extend_lens_cpu) /\ Len(batch.extend_lens_cpu[1]) /= Len(batch.reqs)

\* C7: the call fails, and returns no record, when the per-request arrays do
\* not all have batch_size entries, and when batch_size = 0 in a non-decode
\* mode.  The claim names the error InvalidBatch; the code defines no such
\* class, so any exception is counted as the failure the claim asks for.
C7_InvalidBatchRaises ==
    (Built /\ (LengthsMismatch \/ (Len(batch.reqs) = 0 /\ batch.forward_mode /= DECODE))) =>
        /\ raised /= "None"
        /\ ret = None

\* C8 as stated: the extend-only fields of the returned record are populated
\* exactly when forward_mode.is_extend() (EXTEND or MIXED).
C8_PopulatedIffIsExtend ==
    Returned => (ExtendPopulated(Rec) <=> is_extend(Rec.forward_mode))

\* C8 amended: the extend-only fields of the returned record are populated
\* exactly when the mode is not DECODE (PREFILL, EXTEND or MIXED), and are
\* all absent otherwise.
C8_PopulatedIffNotDecode ==
    Returned =>
        /\ Rec.forward_mode = batch.forward_mode
        /\ Rec.forward_mode \in {PREFILL, EXTEND, MIXED} => ExtendPopulated(Rec)
        /\ Rec.forward_mode = DECODE =>
              /\ IsNone(Rec.extend_seq_lens)
              /\ IsNone(Rec.extend_prefix_lens)
              /\ IsNone(Rec.extend_start_loc)

\* A PREFILL batch whose record carries the extend-only fields.
C8_Witness ==
    /\ Returned
    /\ Rec.forward_mode = PREFILL
    /\ ~is_extend(Rec.forward_mode)
    /\ Rec.extend_seq_lens = Some(<<1>>)
    /\ Rec.extend_prefix_lens = Some(<<2>>)
    /\ Rec.extend_start_loc = Some(<<0>>)

\* C9: the call leaves the batch descriptor as it was, whether it returns or
\* raises, and the returned record carries the descriptor's input_ids,
\* req_pool_indices, seq_lens and out_cache_loc.
C9_BatchUnchanged ==
    [][(pc = "ready" /\ pc' = "built") =>
          /\ batch' = batch
          /\ raised' = "None" =>
                /\ ret'[1].input_ids = batch.input_ids
                /\ ret'[1].req_pool_indices = batch.req_pool_indices
                /\ ret'[1].seq_lens = batch.seq_lens
                /\ ret'[1].out_cache_loc = batch.out_cache_loc]_vars

\* A decode record that shares seq_lens with its batch, positions computed.
C9_Witness ==
    /\ Returned
    /\ batch.forward_mode = DECODE
    /\ batch.seq_lens = <<2, 3, 1>>
    /\ Rec.seq_lens = <<2, 3, 1>>
    /\ Rec.positions = Some(<<1, 2, 0>>)
    /\ Rec.input_ids = batch.input_ids
    /\ Rec.out_cache_loc = <<101, 102, 103>>
====
